---- MODULE Spec2Model ----
(***************************************************************************)
(* The polling service of nexa-apps (PollingApp/src/polls, PollsAPI/src/   *)
(* polls): PollsService over the two NexaDB collections "polls" and        *)
(* "votes".  Every handler is a chain of awaited store calls; one action   *)
(* of this module is one store call together with the synchronous code     *)
(* that follows it up to the next await (or the return/throw).             *)
(***************************************************************************)
EXTENDS Integers, Sequences, FiniteSets, TLC

(***************************************************************************)
(* Strings are sequences of one-character strings; "" is << >>.            *)
(***************************************************************************)
Nil == << >>

A == <<"A">>
B == <<"B">>
C == <<"C">>
Q == <<"Q">>
U1 == <<"u", "1">>
U2 == <<"u", "2">>
General == <<"G", "e", "n", "e", "r", "a", "l">>
X == <<"X">>

(* The decimal digits of a natural number. *)
RECURSIVE Digits(_)
Digits(n) ==
    LET d == <<"0", "1", "2", "3", "4", "5", "6", "7", "8", "9">>[(n % 10) + 1]
    IN  IF n < 10 THEN <<d>> ELSE Append(Digits(n \div 10), d)

(* JavaScript values arriving in a request body; a number is held by its
   digits. *)
Str(s) == [t |-> "string", v |-> s]
Num(n) == [t |-> "number", v |-> Digits(n)]
Undefined == [t |-> "undefined", v |-> Nil]

(* !x is false exactly for the truthy values. *)
Truthy(x) ==
    \/ x.t = "string" /\ x.v # Nil
    \/ x.t = "number" /\ x.v # Digits(0)

IsString(x) == x.t = "string"

Range(s) == {s[i] : i \in DOMAIN s}

Min(a, b) == IF a <= b THEN a ELSE b

Take(s, n) == SubSeq(s, 1, Min(Len(s), n))

(***************************************************************************)
(* Bounds of the exploration.                                              *)
(***************************************************************************)
MaxPolls == 2
MaxVotes == 3
MaxLoadedVotes == 1
MaxCloses == 2
MaxTallyVotes == 2
MaxLoadedPolls == 1

(***************************************************************************)
(* State.  polls and votes are the two collections, in insertion order.    *)
(* pollSeq and voteSeq count the documents ever inserted: generateId and   *)
(* the store's _id never repeat.  proc holds one record per request in     *)
(* flight: its position (pc), its arguments, its locals and, once it is    *)
(* finished, its response.                                                 *)
(***************************************************************************)
VARIABLES polls, votes, pollSeq, voteSeq, proc

vars == <<polls, votes, pollSeq, voteSeq, proc>>

Procs == {"r1", "r2"}

(* Query limits the handlers pass to client.query. *)
LIMIT_ONE == 1
LIMIT_VOTES == 1000
LIMIT_POLLS_LIST == 100
LIMIT_POLLS_CATEGORIES == 1000

(***************************************************************************)
(* The store (NexaClient): query by filter with a limit, create, update    *)
(* and delete by _id.                                                      *)
(***************************************************************************)
QueryPollsById(ps, id, limit) == Take(SelectSeq(ps, LAMBDA d : d.id = id), limit)

QueryAllPolls(ps, limit) == Take(ps, limit)

QueryVotesByPoll(vs, id, limit) ==
    Take(SelectSeq(vs, LAMBDA d : d.poll_id = id), limit)

QueryVotesByPollAndVoter(vs, id, voter, limit) ==
    Take(SelectSeq(vs, LAMBDA d : d.poll_id = id /\ d.voter_id = voter), limit)

DeleteById(coll, docId) == SelectSeq(coll, LAMBDA d : d._id # docId)

(* UpdateById that patches every document of the collection. *)
UpdateById_All(coll, docId, patch) ==
    [i \in DOMAIN coll |-> [coll[i] EXCEPT !.status = patch.status, !.closed_at = patch.closed_at]]

UpdateById(coll, docId, patch) ==
    [i \in DOMAIN coll |->
        IF coll[i]._id = docId
        THEN [coll[i] EXCEPT !.status = patch.status, !.closed_at = patch.closed_at]
        ELSE coll[i]]

(***************************************************************************)
(* voteCounts is a plain object ({}): besides its own keys it answers for  *)
(* the properties of Object.prototype.  Reading an inherited data property *)
(* gives a function (not undefined); writing one creates an own key; the   *)
(* key "__proto__" is an accessor whose setter ignores a number, so it     *)
(* never becomes an own key by assignment.                                 *)
(***************************************************************************)
PROTO == <<"_", "_", "p", "r", "o", "t", "o", "_", "_">>

OBJECT_PROTOTYPE_DATA ==
    {<<"c", "o", "n", "s", "t", "r", "u", "c", "t", "o", "r">>,
     <<"t", "o", "S", "t", "r", "i", "n", "g">>,
     <<"t", "o", "L", "o", "c", "a", "l", "e", "S", "t", "r", "i", "n", "g">>,
     <<"v", "a", "l", "u", "e", "O", "f">>,
     <<"h", "a", "s", "O", "w", "n", "P", "r", "o", "p", "e", "r", "t", "y">>,
     <<"i", "s", "P", "r", "o", "t", "o", "t", "y", "p", "e", "O", "f">>,
     <<"p", "r", "o", "p", "e", "r", "t", "y", "I", "s", "E", "n", "u", "m", "e", "r", "a", "b", "l", "e">>,
     <<"_", "_", "d", "e", "f", "i", "n", "e", "G", "e", "t", "t", "e", "r", "_", "_">>,
     <<"_", "_", "d", "e", "f", "i", "n", "e", "S", "e", "t", "t", "e", "r", "_", "_">>,
     <<"_", "_", "l", "o", "o", "k", "u", "p", "G", "e", "t", "t", "e", "r", "_", "_">>,
     <<"_", "_", "l", "o", "o", "k", "u", "p", "S", "e", "t", "t", "e", "r", "_", "_">>}

(* The number NaN, the result of ++ on a function. *)
NaN == -1

(***************************************************************************)
(* The tally of findOne, findAll and vote: every declared option starts    *)
(* at 0 (voteCounts[opt] = 0), and a vote adds one to voteCounts of its     *)
(* option when voteCounts[vote.option] !== undefined.                      *)
(***************************************************************************)
Tally(options, vs) ==
    LET declared == Range(options) \ {PROTO}
        stray == {vs[i].option : i \in DOMAIN vs} \cap (OBJECT_PROTOTYPE_DATA \ declared)
    IN  [o \in declared \cup stray |->
            IF o \in declared THEN Cardinality({i \in DOMAIN vs : vs[i].option = o})
            ELSE NaN]

(***************************************************************************)
(* Math.round((voteCounts[opt] / totalVotes) * 100) in IEEE 754 binary64.  *)
(* A positive double is [a, b, c, e]: its 53-bit significand is            *)
(* M = a * 2^36 + b * 2^18 + c (three limbs, 2^16 <= a < 2^17), e is the   *)
(* exponent of its leading bit, and its value is M * 2^(e - 52).  Division *)
(* and multiplication round to nearest, ties to even; Math.round rounds to *)
(* the nearest integer, ties towards +Infinity.                            *)
(***************************************************************************)
Limb == 2^18
TopLimb == 2^17

(* M + 1, renormalised when the carry runs out of the 53 bits. *)
DoubleNextUp(x) ==
    IF x.c + 1 < Limb THEN [x EXCEPT !.c = @ + 1]
    ELSE IF x.b + 1 < Limb THEN [x EXCEPT !.c = 0, !.b = @ + 1]
    ELSE IF x.a + 1 < TopLimb THEN [x EXCEPT !.c = 0, !.b = 0, !.a = @ + 1]
    ELSE [a |-> TopLimb \div 2, b |-> 0, c |-> 0, e |-> x.e + 1]

(* Round to nearest, ties to even: cmp is -1, 0 or 1 as the discarded part
   is below, at or above half a unit in the last place. *)
RoundNearestEven(x, cmp) ==
    IF cmp > 0 \/ (cmp = 0 /\ (x.c % 2) = 1) THEN DoubleNextUp(x) ELSE x

(* c * 2^k for the least k with c * 2^k >= t. *)
RECURSIVE Normalise(_, _, _)
Normalise(c, t, k) ==
    IF c >= t THEN [n |-> c, k |-> k] ELSE Normalise(2 * c, t, k + 1)

(* c / t for integers 0 < c <= t, correctly rounded: long division, 16, 18
   and 18 quotient bits after the leading one. *)
DoubleDiv(c, t) ==
    LET nk == Normalise(c, t, 0)
        r0 == nk.n - t
        qa == (r0 * (TopLimb \div 2)) \div t
        ra == (r0 * (TopLimb \div 2)) % t
        qb == (ra * Limb) \div t
        rb == (ra * Limb) % t
        qc == (rb * Limb) \div t
        rc == (rb * Limb) % t
        cmp == IF 2 * rc > t THEN 1 ELSE IF 2 * rc = t THEN 0 ELSE -1
    IN  RoundNearestEven(
            [a |-> (TopLimb \div 2) + qa, b |-> qb, c |-> qc, e |-> -nk.k], cmp)

(* x * 100, correctly rounded: the exact product has 6 or 7 bits more than
   the significand holds. *)
DoubleTimes100(x) ==
    LET pc == x.c * 100
        pb == (x.b * 100) + (pc \div Limb)
        pa == (x.a * 100) + (pb \div Limb)
        lc == pc % Limb
        lb == pb % Limb
        d  == IF pa >= 64 * TopLimb THEN 7 ELSE 6
        D  == 2^d
        lost == lc % D
        cmp == IF 2 * lost > D THEN 1 ELSE IF 2 * lost = D THEN 0 ELSE -1
    IN  RoundNearestEven(
            [a |-> pa \div D,
             b |-> (lb \div D) + ((pa % D) * (Limb \div D)),
             c |-> (lc \div D) + ((lb % D) * (Limb \div D)),
             e |-> x.e + d], cmp)

(* Math.round of a positive double below 2^16. *)
MathRound(x) ==
    IF x.e < -1 THEN 0
    ELSE (x.a \div (2^(16 - x.e))) + ((x.a \div (2^(15 - x.e))) % 2)

(* findOne's votePercentages[opt]. *)
Percentage(count, totalVotes) ==
    IF totalVotes > 0
    THEN (IF count = 0 THEN 0
          ELSE MathRound(DoubleTimes100(DoubleDiv(count, totalVotes))))
    ELSE 0

(* 100 * count / total rounded to the nearest integer, halves up, in exact
   arithmetic. *)
ExactPercentage(count, total) == ((200 * count) + total) \div (2 * total)

(***************************************************************************)
(* Responses.  A handler returns a body or throws; Nest turns the          *)
(* exception into an error response carrying its class and message.        *)
(***************************************************************************)
NoBody == [kind |-> "none"]

Ok(body) == [ok |-> TRUE, error |-> "", message |-> "", arg |-> Nil, body |-> body]

Throw(class, message, arg) ==
    [ok |-> FALSE, error |-> class, message |-> message, arg |-> arg, body |-> NoBody]

(* NotFound thrown as a BadRequestException. *)
NotFound_AsBadRequest(message) == Throw("BadRequestException", message, Nil)

NotFound(message) == Throw("NotFoundException", message, Nil)

BadRequest(message, arg) == Throw("BadRequestException", message, arg)

(* A store call that rejects (the database is unreachable, the call fails). *)
StoreFault == Throw("StoreError", "store call failed", Nil)

NoResp == [ok |-> FALSE, error |-> "pending", message |-> "", arg |-> Nil, body |-> NoBody]

(***************************************************************************)
(* Requests in flight.                                                     *)
(***************************************************************************)
NoPoll == [_id |-> 0, id |-> 0, question |-> Nil, options |-> << >>,
           category |-> Nil, status |-> "none", closed_at |-> 0]

NoDto == [question |-> Undefined, options |-> [isArray |-> FALSE, items |-> << >>],
          category |-> Undefined]

(* The NexaClient of a request of the PollsAPI service (the PollingApp
   service holds one client for all requests): not obtained, and the number
   of calls of close. *)
NoClient == [state |-> "none", closes |-> 0]

Idle == [pc |-> "idle", op |-> "none", id |-> 0, voter |-> Undefined,
         option |-> Undefined, dto |-> NoDto, poll |-> NoPoll, list |-> << >>,
         acc |-> << >>, n |-> 0, resp |-> NoResp, polls0 |-> << >>, votes0 |-> << >>,
         client |-> NoClient]

(* A request as it enters its handler; polls0 and votes0 remember the two
   collections as they were then. *)
Request(op, id) ==
    [Idle EXCEPT !.op = op, !.id = id, !.polls0 = polls, !.votes0 = votes]

Finish(r, resp) == [r EXCEPT !.pc = "done", !.resp = resp]

At(p, pc) == proc[p].pc = pc

StoreUnchanged == UNCHANGED <<polls, votes, pollSeq, voteSeq>>

(***************************************************************************)
(* PollsService.vote                                                       *)
(***************************************************************************)
(* The checks of the request body, before the first store call. *)
VoteDtoError(voter, option) ==
    IF ~Truthy(voter) \/ ~IsString(voter) THEN BadRequest("voter_id is required", Nil)
    ELSE IF ~Truthy(option) \/ ~IsString(option) THEN BadRequest("option is required", Nil)
    ELSE NoResp

(* VotePollError without the test of poll.status. *)
VotePollError_NoStatusCheck(found, option) ==
    IF Len(found) = 0 THEN NotFound("Poll not found")
    ELSE IF option \notin Range(found[1].options)
         THEN BadRequest("Invalid option. Valid options: ", found[1].options)
    ELSE NoResp

(* VotePollError without the test of poll.options.includes(option). *)
VotePollError_NoOptionCheck(found, option) ==
    IF Len(found) = 0 THEN NotFound("Poll not found")
    ELSE IF found[1].status # "active" THEN BadRequest("Poll is closed", Nil)
    ELSE NoResp

(* VotePollError with the option tested before the status. *)
VotePollError_OptionFirst(found, option) ==
    IF Len(found) = 0 THEN NotFound("Poll not found")
    ELSE IF option \notin Range(found[1].options)
         THEN BadRequest("Invalid option. Valid options: ", found[1].options)
    ELSE IF found[1].status # "active" THEN BadRequest("Poll is closed", Nil)
    ELSE NoResp

(* The checks on the poll read from the store. *)
VotePollError(found, option) ==
    IF Len(found) = 0 THEN NotFound("Poll not found")
    ELSE IF found[1].status # "active" THEN BadRequest("Poll is closed", Nil)
    ELSE IF option \notin Range(found[1].options)
         THEN BadRequest("Invalid option. Valid options: ", found[1].options)
    ELSE NoResp

(* VoteExistingError without the test of existingVotes.length. *)
VoteExistingError_Skipped(existing, option) == NoResp

(* VoteExistingError with the requested option in the message. *)
VoteExistingError_NamesRequested(existing, option) ==
    IF Len(existing) > 0 THEN BadRequest("Already voted: ", option)
    ELSE NoResp

(* The check on the voter's votes read from the store. *)
VoteExistingError(existing, option) ==
    IF Len(existing) > 0 THEN BadRequest("Already voted: ", existing[1].option)
    ELSE NoResp

NewVote(docId, id, voter, option) ==
    [_id |-> docId, id |-> docId, poll_id |-> id, voter_id |-> voter, option |-> option]

VoteResults(poll, allVotes) ==
    [kind |-> "vote", total_votes |-> Len(allVotes),
     vote_counts |-> Tally(poll.options, allVotes)]

VoteStart(p, in) ==
    /\ At(p, "idle")
    /\ voteSeq < in.voteCap
    /\ \E id \in in.ids, voter \in in.voters, option \in in.options :
        LET r == [Request("vote", id) EXCEPT !.voter = voter, !.option = option]
            err == VoteDtoError(voter, option)
        IN  proc' = [proc EXCEPT ![p] =
                IF err # NoResp THEN Finish(r, err) ELSE [r EXCEPT !.pc = "vote:polls"]]
    /\ StoreUnchanged

VotePolls(p) ==
    /\ At(p, "vote:polls")
    /\ LET r == proc[p]
           found == QueryPollsById(polls, r.id, LIMIT_ONE)
           err == VotePollError(found, r.option.v)
       IN  proc' = [proc EXCEPT ![p] =
               IF err # NoResp THEN Finish(r, err)
               ELSE [r EXCEPT !.pc = "vote:existing", !.poll = found[1]]]
    /\ StoreUnchanged

VoteExisting(p) ==
    /\ At(p, "vote:existing")
    /\ LET r == proc[p]
           existing == QueryVotesByPollAndVoter(votes, r.id, r.voter.v, LIMIT_ONE)
           err == VoteExistingError(existing, r.option.v)
       IN  proc' = [proc EXCEPT ![p] =
               IF err # NoResp THEN Finish(r, err) ELSE [r EXCEPT !.pc = "vote:create"]]
    /\ StoreUnchanged

VoteCreate(p) ==
    /\ At(p, "vote:create")
    /\ votes' = Append(votes, NewVote(voteSeq + 1, proc[p].id, proc[p].voter.v, proc[p].option.v))
    /\ voteSeq' = voteSeq + 1
    /\ proc' = [proc EXCEPT ![p].pc = "vote:all"]
    /\ UNCHANGED <<polls, pollSeq>>

VoteAll(p) ==
    /\ At(p, "vote:all")
    /\ LET r == proc[p]
           allVotes == QueryVotesByPoll(votes, r.id, LIMIT_VOTES)
       IN  proc' = [proc EXCEPT ![p] = Finish(r, Ok(VoteResults(r.poll, allVotes)))]
    /\ StoreUnchanged

(***************************************************************************)
(* PollsService.create                                                     *)
(***************************************************************************)
MIN_OPTIONS == 2
MAX_OPTIONS == 10

IsSpace(ch) == ch = " "

(* String.prototype.trim: the string without its leading and trailing
   white space. *)
RECURSIVE TrimLeft(_)
TrimLeft(s) == IF s # Nil /\ IsSpace(Head(s)) THEN TrimLeft(Tail(s)) ELSE s

RECURSIVE TrimRight(_)
TrimRight(s) ==
    IF s # Nil /\ IsSpace(s[Len(s)]) THEN TrimRight(SubSeq(s, 1, Len(s) - 1)) ELSE s

Trim(s) == TrimRight(TrimLeft(s))

(* An array of JavaScript values, given the strings of its elements. *)
Strs(items) == [i \in DOMAIN items |-> Str(items[i])]

Arr(items) == [isArray |-> TRUE, items |-> items]
NotAnArray == [isArray |-> FALSE, items |-> << >>]

(* The checks of the request body, and the TypeErrors of building the poll
   (o.trim() on an option that is not a string, category.trim() on a truthy
   category that is not a string), all before the store call. *)
CreateDtoError(dto) ==
    IF ~Truthy(dto.question) \/ ~IsString(dto.question)
    THEN BadRequest("Question is required", Nil)
    ELSE IF ~dto.options.isArray \/ Len(dto.options.items) < MIN_OPTIONS
    THEN BadRequest("At least 2 options are required", Nil)
    ELSE IF Len(dto.options.items) > MAX_OPTIONS
    THEN BadRequest("Maximum 10 options allowed", Nil)
    ELSE IF \E i \in DOMAIN dto.options.items : ~IsString(dto.options.items[i])
    THEN Throw("TypeError", "o.trim is not a function", Nil)
    ELSE IF Truthy(dto.category) /\ ~IsString(dto.category)
    THEN Throw("TypeError", "category.trim is not a function", Nil)
    ELSE NoResp

(* category?.trim() || 'General' *)
CategoryOf(category) ==
    IF IsString(category) /\ Trim(category.v) # Nil THEN Trim(category.v) ELSE General

NewPoll(docId, dto) ==
    [_id |-> docId, id |-> docId,
     question |-> Trim(dto.question.v),
     options |-> [i \in DOMAIN dto.options.items |-> Trim(dto.options.items[i].v)],
     category |-> CategoryOf(dto.category),
     status |-> "active",
     closed_at |-> 0]

CreateBody(poll) ==
    [kind |-> "create", poll |-> poll, total_votes |-> 0,
     vote_counts |-> [o \in Range(poll.options) |-> 0]]

(* generateId is called before the store call: the id is taken here. *)
CreateStart(p, in) ==
    /\ At(p, "idle")
    /\ pollSeq < in.pollCap
    /\ \E dto \in in.dtos :
        LET r == [Request("create", 0) EXCEPT !.dto = dto]
            err == CreateDtoError(dto)
        IN  IF err # NoResp
            THEN /\ proc' = [proc EXCEPT ![p] = Finish(r, err)]
                 /\ UNCHANGED pollSeq
            ELSE /\ proc' = [proc EXCEPT ![p] =
                        [r EXCEPT !.pc = "create:insert", !.id = pollSeq + 1,
                                  !.poll = NewPoll(pollSeq + 1, dto)]]
                 /\ pollSeq' = pollSeq + 1
    /\ UNCHANGED <<polls, votes, voteSeq>>

CreateInsert(p) ==
    /\ At(p, "create:insert")
    /\ polls' = Append(polls, proc[p].poll)
    /\ proc' = [proc EXCEPT ![p] = Finish(proc[p], Ok(CreateBody(proc[p].poll)))]
    /\ UNCHANGED <<votes, pollSeq, voteSeq>>

(***************************************************************************)
(* PollsService.findOne                                                    *)
(***************************************************************************)
VotePercentages(options, voteCounts, totalVotes) ==
    [o \in Range(options) \ {PROTO} |-> Percentage(voteCounts[o], totalVotes)]

FindOneBody(poll, vs) ==
    [kind |-> "findOne", poll |-> poll, total_votes |-> Len(vs),
     vote_counts |-> Tally(poll.options, vs),
     vote_percentages |-> VotePercentages(poll.options, Tally(poll.options, vs), Len(vs))]

FindOneStart(p, in) ==
    /\ At(p, "idle")
    /\ \E id \in in.ids :
        proc' = [proc EXCEPT ![p] = [Request("findOne", id) EXCEPT !.pc = "findOne:polls"]]
    /\ StoreUnchanged

FindOnePolls(p) ==
    /\ At(p, "findOne:polls")
    /\ LET r == proc[p]
           found == QueryPollsById(polls, r.id, LIMIT_ONE)
       IN  proc' = [proc EXCEPT ![p] =
               IF Len(found) = 0 THEN Finish(r, NotFound("Poll not found"))
               ELSE [r EXCEPT !.pc = "findOne:votes", !.poll = found[1]]]
    /\ StoreUnchanged

(* FindOneVotes that takes the votes it reads out of the collection. *)
FindOneVotes_Consuming(p) ==
    /\ At(p, "findOne:votes")
    /\ LET r == proc[p]
           vs == QueryVotesByPoll(votes, r.id, LIMIT_VOTES)
       IN  /\ proc' = [proc EXCEPT ![p] = Finish(r, Ok(FindOneBody(r.poll, vs)))]
           /\ votes' = SelectSeq(votes, LAMBDA v : v.poll_id # r.id)
    /\ UNCHANGED <<polls, pollSeq, voteSeq>>

FindOneVotes(p) ==
    /\ At(p, "findOne:votes")
    /\ LET r == proc[p]
           vs == QueryVotesByPoll(votes, r.id, LIMIT_VOTES)
       IN  proc' = [proc EXCEPT ![p] = Finish(r, Ok(FindOneBody(r.poll, vs)))]
    /\ StoreUnchanged

(***************************************************************************)
(* PollsService.findAll: the polls, then one votes query per poll          *)
(* (Promise.all over polls.map).                                           *)
(***************************************************************************)
FindAllEntry(poll, vs) ==
    [poll |-> poll, total_votes |-> Len(vs), vote_counts |-> Tally(poll.options, vs)]

FindAllBody(entries) == [kind |-> "findAll", count |-> Len(entries), polls |-> entries]

FindAllStart(p) ==
    /\ At(p, "idle")
    /\ proc' = [proc EXCEPT ![p] = [Request("findAll", 0) EXCEPT !.pc = "findAll:polls"]]
    /\ StoreUnchanged

FindAllPolls(p) ==
    /\ At(p, "findAll:polls")
    /\ LET r == proc[p]
           found == QueryAllPolls(polls, LIMIT_POLLS_LIST)
       IN  proc' = [proc EXCEPT ![p] =
               IF Len(found) = 0 THEN Finish(r, Ok(FindAllBody(<< >>)))
               ELSE [r EXCEPT !.pc = "findAll:votes", !.list = found]]
    /\ StoreUnchanged

FindAllVotes(p) ==
    /\ At(p, "findAll:votes")
    /\ LET r == proc[p]
           poll == r.list[Len(r.acc) + 1]
           vs == QueryVotesByPoll(votes, poll.id, LIMIT_VOTES)
           acc == Append(r.acc, FindAllEntry(poll, vs))
       IN  proc' = [proc EXCEPT ![p] =
               IF Len(acc) = Len(r.list) THEN Finish([r EXCEPT !.acc = acc], Ok(FindAllBody(acc)))
               ELSE [r EXCEPT !.acc = acc]]
    /\ StoreUnchanged

(***************************************************************************)
(* PollsService.getCategories                                              *)
(***************************************************************************)
Technology == <<"T", "e", "c", "h", "n", "o", "l", "o", "g", "y">>
Sports == <<"S", "p", "o", "r", "t", "s">>
Entertainment == <<"E", "n", "t", "e", "r", "t", "a", "i", "n", "m", "e", "n", "t">>
Politics == <<"P", "o", "l", "i", "t", "i", "c", "s">>
FoodAndDrinks == <<"F", "o", "o", "d", " ", "&", " ", "D", "r", "i", "n", "k", "s">>
Travel == <<"T", "r", "a", "v", "e", "l">>
Health == <<"H", "e", "a", "l", "t", "h">>
Education == <<"E", "d", "u", "c", "a", "t", "i", "o", "n">>
Business == <<"B", "u", "s", "i", "n", "e", "s", "s">>

DEFAULT_CATEGORIES ==
    <<General, Technology, Sports, Entertainment, Politics, FoodAndDrinks, Travel,
      Health, Education, Business>>

(* p.category || 'General' *)
CategoryOrGeneral(category) == IF category # Nil THEN category ELSE General

(* The elements of a set of positions, in increasing order. *)
RECURSIVE Ascending(_)
Ascending(positions) ==
    IF positions = {} THEN << >>
    ELSE LET m == CHOOSE i \in positions : \A j \in positions : i <= j
         IN  <<m>> \o Ascending(positions \ {m})

(* new Set([...DEFAULT_CATEGORIES, ...pollCategories]) as an array: the
   defaults, then every other category of the polls read, in the order of
   its first poll. *)
AllCategories(ps) ==
    LET cat(i) == CategoryOrGeneral(ps[i].category)
        firsts == {i \in DOMAIN ps :
                      /\ cat(i) \notin Range(DEFAULT_CATEGORIES)
                      /\ \A j \in 1..(i - 1) : cat(j) # cat(i)}
        order == Ascending(firsts)
    IN  DEFAULT_CATEGORIES \o [k \in DOMAIN order |-> cat(order[k])]

(* Object.prototype, what categoryCounts["__proto__"] reads: the write of a
   number to that key is ignored. *)
ObjectPrototype == -2

(* categoryCounts[name] once every poll read has been counted. *)
CategoryCount(name, ps) ==
    IF name = PROTO THEN ObjectPrototype
    ELSE Cardinality({i \in DOMAIN ps : CategoryOrGeneral(ps[i].category) = name})

CategoriesBody(ps) ==
    LET all == AllCategories(ps)
    IN  [kind |-> "categories",
         categories |-> [k \in DOMAIN all |-> [name |-> all[k], count |-> CategoryCount(all[k], ps)]],
         total_polls |-> Len(ps)]

CategoriesStart(p) ==
    /\ At(p, "idle")
    /\ proc' = [proc EXCEPT ![p] = [Request("categories", 0) EXCEPT !.pc = "categories:polls"]]
    /\ StoreUnchanged

CategoriesPolls(p) ==
    /\ At(p, "categories:polls")
    /\ LET found == QueryAllPolls(polls, LIMIT_POLLS_CATEGORIES)
       IN  proc' = [proc EXCEPT ![p] = Finish(proc[p], Ok(CategoriesBody(found)))]
    /\ StoreUnchanged

(***************************************************************************)
(* PollsService.close                                                      *)
(***************************************************************************)
HasDoc(coll, docId) == \E i \in DOMAIN coll : coll[i]._id = docId

CloseBody(id) == [kind |-> "close", poll_id |-> id]

(* ClosePatch that sets a closed poll back to active. *)
ClosePatch_Reopens(coll, docId) ==
    [status |-> IF \E d \in Range(coll) : d._id = docId /\ d.status = "closed"
                THEN "active" ELSE "closed",
     closed_at |-> 1]

(* The fields close writes.  closed_at, new Date() at the update, is an
   instant later than the one the record holds; instants are counted per
   record: 0 is "never closed", n is the instant of the record's n-th close. *)
ClosePatch(coll, docId) ==
    [status |-> "closed",
     closed_at |-> IF HasDoc(coll, docId)
                   THEN (CHOOSE d \in Range(coll) : d._id = docId).closed_at + 1
                   ELSE 1]

CloseStart(p, in) ==
    /\ At(p, "idle")
    /\ \E id \in in.ids :
        /\ \A i \in DOMAIN polls : polls[i].id = id => polls[i].closed_at < in.closeCap
        /\ proc' = [proc EXCEPT ![p] = [Request("close", id) EXCEPT !.pc = "close:polls"]]
    /\ StoreUnchanged

CloseDecision(found) ==
    IF Len(found) = 0 THEN NotFound("Poll not found") ELSE NoResp

ClosePolls(p) ==
    /\ At(p, "close:polls")
    /\ LET r == proc[p]
           found == QueryPollsById(polls, r.id, LIMIT_ONE)
           err == CloseDecision(found)
       IN  proc' = [proc EXCEPT ![p] =
               IF err # NoResp THEN Finish(r, err)
               ELSE [r EXCEPT !.pc = "close:update", !.poll = found[1]]]
    /\ StoreUnchanged

(* client.update by _id.  What the store answers when the document is gone
   (a concurrent delete) is the store's choice: it succeeds or it rejects. *)
CloseUpdate(p) ==
    /\ At(p, "close:update")
    /\ polls' = UpdateById(polls, proc[p].poll._id, ClosePatch(polls, proc[p].poll._id))
    /\ \E resp \in (IF HasDoc(polls, proc[p].poll._id)
                    THEN {Ok(CloseBody(proc[p].id))}
                    ELSE {Ok(CloseBody(proc[p].id)), StoreFault}) :
        proc' = [proc EXCEPT ![p] = Finish(proc[p], resp)]
    /\ UNCHANGED <<votes, pollSeq, voteSeq>>

(***************************************************************************)
(* PollsService.remove                                                     *)
(***************************************************************************)
RemoveBody(id, n) == [kind |-> "remove", poll_id |-> id, votes_removed |-> n]

RemoveStart(p, in) ==
    /\ At(p, "idle")
    /\ \E id \in in.ids :
        proc' = [proc EXCEPT ![p] = [Request("remove", id) EXCEPT !.pc = "remove:polls"]]
    /\ StoreUnchanged

RemovePolls(p) ==
    /\ At(p, "remove:polls")
    /\ LET r == proc[p]
           found == QueryPollsById(polls, r.id, LIMIT_ONE)
       IN  proc' = [proc EXCEPT ![p] =
               IF Len(found) = 0 THEN Finish(r, NotFound("Poll not found"))
               ELSE [r EXCEPT !.pc = "remove:votes", !.poll = found[1]]]
    /\ StoreUnchanged

(* The votes the loop will delete. *)
RemoveQuery(vs, id) == QueryVotesByPoll(vs, id, LIMIT_VOTES)

(* The store calls of remove after its two queries, in order: one delete
   per vote read, then the delete of the poll. *)
RemovePlan(found) == [i \in 1..(Len(found) + 1) |->
                        IF i <= Len(found) THEN "vote" ELSE "poll"]

RemoveVotes(p) ==
    /\ At(p, "remove:votes")
    /\ LET r == proc[p]
           found == RemoveQuery(votes, r.id)
       IN  proc' = [proc EXCEPT ![p] =
               [r EXCEPT !.pc = "remove:delete", !.list = found, !.n = Len(found),
                         !.acc = RemovePlan(found)]]
    /\ StoreUnchanged

(* The next delete of the plan; after the last one remove returns. *)
RemoveDelete(p) ==
    /\ At(p, "remove:delete")
    /\ LET r == proc[p]
           step == Head(r.acc)
           rest == Tail(r.acc)
           r2 == [r EXCEPT !.acc = rest,
                           !.list = IF step = "vote" THEN Tail(r.list) ELSE r.list]
       IN  /\ IF step = "vote"
              THEN /\ votes' = DeleteById(votes, Head(r.list)._id)
                   /\ UNCHANGED polls
              ELSE /\ polls' = DeleteById(polls, r.poll._id)
                   /\ UNCHANGED votes
           /\ proc' = [proc EXCEPT ![p] =
                  IF rest = << >> THEN Finish(r2, Ok(RemoveBody(r.id, r.n))) ELSE r2]
    /\ UNCHANGED <<pollSeq, voteSeq>>

(***************************************************************************)
(* The PollingApp UI: what the React component shows for a listed poll.    *)
(***************************************************************************)
(* transformPoll: the poll of the component, from an entry of listPolls. *)
transformPoll(apiPoll) ==
    [id |-> apiPoll.poll.id,
     question |-> apiPoll.poll.question,
     options |-> apiPoll.poll.options,
     category |-> CategoryOrGeneral(apiPoll.poll.category),
     votes |-> apiPoll.vote_counts,
     total_votes |-> apiPoll.total_votes]

(* Object.values(votes).reduce((sum, v) => sum + v, 0); a NaN among the
   values makes the sum NaN. *)
RECURSIVE SumOfValues(_, _)
SumOfValues(counts, keys) ==
    IF keys = {} THEN 0
    ELSE LET k == CHOOSE x \in keys : TRUE IN counts[k] + SumOfValues(counts, keys \ {k})

getTotalVotes(counts) ==
    IF \E o \in DOMAIN counts : counts[o] = NaN THEN NaN
    ELSE SumOfValues(counts, DOMAIN counts)

(* Math.round((votes[option] / total) * 100); votes[option] of a key the
   object does not hold is undefined or an inherited object, and the
   quotient is NaN. *)
getVotePercentage(counts, option) ==
    LET total == getTotalVotes(counts)
    IN  IF total = 0 THEN 0
        ELSE IF total = NaN \/ option \notin DOMAIN counts \/ counts[option] = NaN THEN NaN
        ELSE IF counts[option] = 0 THEN 0
        ELSE MathRound(DoubleTimes100(DoubleDiv(counts[option], total)))

(***************************************************************************)
(* A pending store call rejects: the handler throws and the request ends   *)
(* with an error, whatever it had done so far stays done.                  *)
(***************************************************************************)
Pending(p) == proc[p].pc \notin {"idle", "done"}

Fault(p) ==
    /\ Pending(p)
    /\ proc' = [proc EXCEPT ![p] = Finish(proc[p], StoreFault)]
    /\ StoreUnchanged

(* The response is sent; the slot is free for the next request. *)
Return(p) ==
    /\ At(p, "done")
    /\ proc' = [proc EXCEPT ![p] = Idle]
    /\ StoreUnchanged

(***************************************************************************)
(* Request inputs of the exploration.                                      *)
(***************************************************************************)
DtoAB == [question |-> Str(<<" ", "Q">>),
          options |-> Arr(Strs(<<<<" ", "A">>, <<"B", " ">>>>)),
          category |-> Undefined]
DtoOneOption == [question |-> Str(Q), options |-> Arr(Strs(<<A>>)), category |-> Undefined]
DtoNoQuestion == [question |-> Str(Nil), options |-> Arr(Strs(<<A, B>>)), category |-> Undefined]

Inputs ==
    [ids |-> 1..MaxPolls,
     voters |-> {Str(U1), Str(U2), Str(Nil), Num(7)},
     options |-> {Str(A), Str(B), Str(C), Str(Nil)},
     dtos |-> {DtoAB, DtoOneOption, DtoNoQuestion},
     pollCap |-> MaxPolls,
     voteCap |-> MaxVotes,
     closeCap |-> MaxCloses]

(***************************************************************************)
(* One step of one request.                                                *)
(***************************************************************************)
VoteSteps(p, in) ==
    \/ VoteStart(p, in) \/ VotePolls(p) \/ VoteExisting(p) \/ VoteCreate(p) \/ VoteAll(p)

CreateSteps(p, in) == CreateStart(p, in) \/ CreateInsert(p)

FindOneSteps(p, in) == FindOneStart(p, in) \/ FindOnePolls(p) \/ FindOneVotes(p)

FindAllSteps(p) == FindAllStart(p) \/ FindAllPolls(p) \/ FindAllVotes(p)

CloseSteps(p, in) == CloseStart(p, in) \/ ClosePolls(p) \/ CloseUpdate(p)

RemoveSteps(p, in) ==
    \/ RemoveStart(p, in) \/ RemovePolls(p) \/ RemoveVotes(p) \/ RemoveDelete(p)

Writers(p, in) ==
    \/ VoteSteps(p, in) \/ CreateSteps(p, in) \/ CloseSteps(p, in) \/ RemoveSteps(p, in)
    \/ Return(p)

CategoriesSteps(p) == CategoriesStart(p) \/ CategoriesPolls(p)

Readers(p, in) == FindOneSteps(p, in) \/ FindAllSteps(p) \/ CategoriesSteps(p)

(***************************************************************************)
(* Spec: a fresh database, and requests one after the other (a request     *)
(* enters only when none is in flight).                                    *)
(***************************************************************************)
FreshStore ==
    /\ polls = << >>
    /\ votes = << >>
    /\ pollSeq = 0
    /\ voteSeq = 0

Init == FreshStore /\ proc = [p \in {"r1"} |-> Idle]

Next == Writers("r1", Inputs) \/ Readers("r1", Inputs) \/ Fault("r1")

Spec == Init /\ [][Next]_vars

(***************************************************************************)
(* ConcSpec: the same handlers with two requests in flight; their store    *)
(* calls interleave in any order.                                          *)
(***************************************************************************)
ConcInputs ==
    [ids |-> {1},
     voters |-> {Str(U1)},
     options |-> {Str(A), Str(B)},
     dtos |-> {DtoAB},
     pollCap |-> MaxPolls,
     voteCap |-> MaxVotes,
     closeCap |-> MaxCloses]

ConcNext == \E p \in Procs : Writers(p, ConcInputs)

ConcInit == FreshStore /\ proc = [p \in Procs |-> Idle]

ConcSpec == ConcInit /\ [][ConcNext]_vars

(***************************************************************************)
(* LoadedSpec: the service starts on a database that already holds a poll  *)
(* with options A, B, C and as many accepted votes as one votes query      *)
(* returns (LIMIT_VOTES), one per voter v1, v2, ...; requests then come    *)
(* one after the other.  A load <<a, b>> is the number of votes for A and  *)
(* for B; the rest are for C.                                              *)
(***************************************************************************)
VoterName(i) == <<"v">> \o Digits(i)

Loads == {<<145, 285>>, <<125, 875>>, <<333, 333>>}

LoadedPoll == [_id |-> 1, id |-> 1, question |-> Q, options |-> <<A, B, C>>,
               category |-> General, status |-> "active", closed_at |-> 0]

LoadedVotes(load) ==
    [i \in 1..LIMIT_VOTES |->
        NewVote(i, 1, VoterName(i),
                IF i <= load[1] THEN A ELSE IF i <= load[1] + load[2] THEN B ELSE C)]

LoadedInit ==
    /\ polls = <<LoadedPoll>>
    /\ \E load \in Loads : votes = LoadedVotes(load)
    /\ pollSeq = 1
    /\ voteSeq = LIMIT_VOTES
    /\ proc = [p \in {"r1"} |-> Idle]

LoadedInputs ==
    [ids |-> {1},
     voters |-> {Str(U1)},
     options |-> {Str(A)},
     dtos |-> {DtoAB},
     pollCap |-> MaxPolls,
     voteCap |-> LIMIT_VOTES + MaxLoadedVotes,
     closeCap |-> MaxCloses]

LoadedNext == Writers("r1", LoadedInputs) \/ Readers("r1", LoadedInputs)

LoadedSpec == LoadedInit /\ [][LoadedNext]_vars

(***************************************************************************)
(* CreateSpec: a fresh database and requests one after the other, with the *)
(* request bodies createPoll can meet: option lists too short, too long,   *)
(* of the greatest length allowed, with entries equal or empty once        *)
(* trimmed, with entries that are not strings; questions missing, blank or *)
(* not strings; categories absent, blank, custom or not strings.           *)
(***************************************************************************)
Dto(question, options, category) ==
    [question |-> question, options |-> options, category |-> category]

(* The options "1", "2", ..., "n". *)
Numbered(n) == Arr([i \in 1..n |-> Str(Digits(i))])

CreateDtos ==
    {DtoAB, DtoOneOption, DtoNoQuestion,
     Dto(Str(Q), NotAnArray, Undefined),
     Dto(Str(Q), Numbered(MAX_OPTIONS), Undefined),
     Dto(Str(Q), Numbered(MAX_OPTIONS + 1), Undefined),
     Dto(Str(Q), Arr(Strs(<<A, <<" ", "A">>>>)), Undefined),
     Dto(Str(Q), Arr(Strs(<<A, <<" ">>>>)), Undefined),
     Dto(Str(Q), Arr(Strs(<<PROTO, A>>)), Str(PROTO)),
     Dto(Str(Q), Arr(<<Num(1), Num(2)>>), Undefined),
     Dto(Str(<<" ">>), Arr(Strs(<<A, B>>)), Undefined),
     Dto(Num(5), Arr(Strs(<<A, B>>)), Undefined),
     Dto(Undefined, Arr(Strs(<<A, B>>)), Undefined),
     Dto(Str(Q), Arr(Strs(<<A, B>>)), Num(5)),
     Dto(Str(Q), Arr(Strs(<<A, B>>)), Str(<<" ">>)),
     Dto(Str(Q), Arr(Strs(<<A, B>>)), Str(<<" ", "X", " ">>)),
     Dto(Str(Q), Arr(Strs(<<A, B>>)), Str(Technology))}

CreateInputs ==
    [ids |-> 1..MaxPolls,
     voters |-> {Str(U1), Str(U2)},
     options |-> {Str(A), Str(PROTO)},
     dtos |-> CreateDtos,
     pollCap |-> MaxPolls,
     voteCap |-> MaxVotes,
     closeCap |-> MaxCloses]

CreateNext ==
    \/ CreateSteps("r1", CreateInputs)
    \/ VoteSteps("r1", CreateInputs)
    \/ FindOneSteps("r1", CreateInputs)
    \/ FindAllSteps("r1")
    \/ CategoriesSteps("r1")
    \/ Return("r1")
    \/ Fault("r1")

CreateSpec == Init /\ [][CreateNext]_vars

(***************************************************************************)
(* TallySpec: the tally as a function of a poll and of any votes.  The     *)
(* database holds one poll, with one of several option lists, and up to    *)
(* MaxTallyVotes votes of that poll carrying any option, declared or not;  *)
(* getPoll and listPolls then compute the tally.                           *)
(***************************************************************************)
CONSTRUCTOR == <<"c", "o", "n", "s", "t", "r", "u", "c", "t", "o", "r">>

TallyOptionLists == {<<A, B>>, <<A, B, C>>, <<A, CONSTRUCTOR>>, <<PROTO, A>>}

TallyVoteOptions == {A, B, C, CONSTRUCTOR, PROTO}

TallyPoll(options) == [LoadedPoll EXCEPT !.options = options]

TallyStore ==
    /\ \E options \in TallyOptionLists : polls = <<TallyPoll(options)>>
    /\ \E n \in 0..MaxTallyVotes : \E choice \in [1..n -> TallyVoteOptions] :
          votes = [i \in 1..n |-> NewVote(i, 1, VoterName(i), choice[i])]
    /\ pollSeq = 1
    /\ voteSeq = Len(votes)

TallyInit == TallyStore /\ proc = [p \in {"r1"} |-> Idle]

TallyInputs == [LoadedInputs EXCEPT !.voteCap = MaxTallyVotes]

TallyNext == Readers("r1", TallyInputs) \/ Return("r1")

TallySpec == TallyInit /\ [][TallyNext]_vars

(***************************************************************************)
(* ReadSpec: the stores of TallySpec, and two read requests in flight at    *)
(* once, with no write request at all: any two reads are two calls with no *)
(* write in between.                                                       *)
(***************************************************************************)
ReadInputs == [TallyInputs EXCEPT !.ids = {1, 2}]

ReadInit == TallyStore /\ proc = [p \in Procs |-> Idle]

ReadNext == \E p \in Procs : Readers(p, ReadInputs) \/ Return(p)

ReadSpec == ReadInit /\ [][ReadNext]_vars

(***************************************************************************)
(* ManyPollsSpec: the service starts on a database that holds one poll     *)
(* more than the largest polls query returns, each created by createPoll   *)
(* with options A, B and a category in turn General, Technology, X; two    *)
(* voters have voted.  Read requests then come one after the other.        *)
(***************************************************************************)
ManyPollsCategories == <<General, Technology, X>>

ManyPoll(i) ==
    [LoadedPoll EXCEPT !._id = i, !.id = i, !.options = <<A, B>>,
                       !.category = ManyPollsCategories[(i % 3) + 1]]

ManyPollsInit ==
    /\ polls = [i \in 1..(LIMIT_POLLS_CATEGORIES + MaxLoadedPolls) |-> ManyPoll(i)]
    /\ \E id \in {1, LIMIT_POLLS_LIST} :
          votes = <<NewVote(1, id, U1, A), NewVote(2, id, U2, B)>>
    /\ pollSeq = Len(polls)
    /\ voteSeq = Len(votes)
    /\ proc = [p \in {"r1"} |-> Idle]

ManyPollsInputs ==
    [LoadedInputs EXCEPT !.ids = {1, LIMIT_POLLS_LIST, LIMIT_POLLS_LIST + 1}]

ManyPollsNext == Readers("r1", ManyPollsInputs) \/ Return("r1")

ManyPollsSpec == ManyPollsInit /\ [][ManyPollsNext]_vars

(***************************************************************************)
(* The PollsAPI service: the same handlers, each with a client of its own  *)
(*   const client = this.nexadb.getClient();                               *)
(*   try { await client.connect(); ... } finally { client.close(); }       *)
(* and queries without a limit.                                            *)
(***************************************************************************)
getClient == [state |-> "new", closes |-> 0]

Connected(client) == [client EXCEPT !.state = "connected"]

Closed(client) == [state |-> "closed", closes |-> client.closes + 1]

(* The finally block run only when the try block returned. *)
ApiFinally_OnReturnOnly(r, resp) ==
    Finish([r EXCEPT !.client = IF resp.ok THEN Closed(r.client) ELSE r.client], resp)

(* The try block ends, by return or by throw: finally closes the client and
   the request ends. *)
ApiFinally(r, resp) == Finish([r EXCEPT !.client = Closed(r.client)], resp)

(* A query without a limit returns every match. *)
NoLimit(coll) == Len(coll)

ApiStep(p, r) == proc' = [proc EXCEPT ![p] = r] /\ StoreUnchanged

(* vote checks its body before it obtains a client. *)
ApiVoteStart(p, in) ==
    /\ At(p, "idle")
    /\ voteSeq < in.voteCap
    /\ \E id \in in.ids, voter \in in.voters, option \in in.options :
        LET r == [Request("api:vote", id) EXCEPT !.voter = voter, !.option = option]
            err == VoteDtoError(voter, option)
        IN  ApiStep(p, IF err # NoResp THEN Finish(r, err)
                       ELSE [r EXCEPT !.pc = "api:connect", !.client = getClient])

ApiCloseStart(p, in) ==
    /\ At(p, "idle")
    /\ \E id \in in.ids :
        /\ \A i \in DOMAIN polls : polls[i].id = id => polls[i].closed_at < in.closeCap
        /\ ApiStep(p, [Request("api:close", id) EXCEPT
                          !.pc = "api:connect", !.client = getClient])

ApiRemoveStart(p, in) ==
    /\ At(p, "idle")
    /\ \E id \in in.ids :
        ApiStep(p, [Request("api:remove", id) EXCEPT
                       !.pc = "api:connect", !.client = getClient])

(* await client.connect() resolves, or rejects and the handler throws. *)
ApiConnect(p) ==
    /\ At(p, "api:connect")
    /\ \/ ApiStep(p, [proc[p] EXCEPT !.pc = proc[p].op, !.client = Connected(proc[p].client)])
       \/ ApiStep(p, ApiFinally(proc[p], StoreFault))

ApiVotePolls(p) ==
    /\ At(p, "api:vote")
    /\ LET r == proc[p]
           found == QueryPollsById(polls, r.id, NoLimit(polls))
           err == VotePollError(found, r.option.v)
       IN  ApiStep(p, IF err # NoResp THEN ApiFinally(r, err)
                      ELSE [r EXCEPT !.pc = "api:vote:existing", !.poll = found[1]])

ApiVoteExisting(p) ==
    /\ At(p, "api:vote:existing")
    /\ LET r == proc[p]
           existing == QueryVotesByPollAndVoter(votes, r.id, r.voter.v, NoLimit(votes))
           err == VoteExistingError(existing, r.option.v)
       IN  ApiStep(p, IF err # NoResp THEN ApiFinally(r, err)
                      ELSE [r EXCEPT !.pc = "api:vote:insert"])

ApiVoteInsert(p) ==
    /\ At(p, "api:vote:insert")
    /\ votes' = Append(votes, NewVote(voteSeq + 1, proc[p].id, proc[p].voter.v, proc[p].option.v))
    /\ voteSeq' = voteSeq + 1
    /\ proc' = [proc EXCEPT ![p].pc = "api:vote:all"]
    /\ UNCHANGED <<polls, pollSeq>>

ApiVoteAll(p) ==
    /\ At(p, "api:vote:all")
    /\ LET r == proc[p]
           allVotes == QueryVotesByPoll(votes, r.id, NoLimit(votes))
       IN  ApiStep(p, ApiFinally(r, Ok(VoteResults(r.poll, allVotes))))

ApiClosePolls(p) ==
    /\ At(p, "api:close")
    /\ LET r == proc[p]
           found == QueryPollsById(polls, r.id, NoLimit(polls))
           err == CloseDecision(found)
       IN  ApiStep(p, IF err # NoResp THEN ApiFinally(r, err)
                      ELSE [r EXCEPT !.pc = "api:close:update", !.poll = found[1]])

ApiCloseUpdate(p) ==
    /\ At(p, "api:close:update")
    /\ polls' = UpdateById(polls, proc[p].poll._id, ClosePatch(polls, proc[p].poll._id))
    /\ proc' = [proc EXCEPT ![p] = ApiFinally(proc[p], Ok(CloseBody(proc[p].id)))]
    /\ UNCHANGED <<votes, pollSeq, voteSeq>>

ApiRemovePolls(p) ==
    /\ At(p, "api:remove")
    /\ LET r == proc[p]
           found == QueryPollsById(polls, r.id, NoLimit(polls))
       IN  ApiStep(p, IF Len(found) = 0 THEN ApiFinally(r, NotFound("Poll not found"))
                      ELSE [r EXCEPT !.pc = "api:remove:votes", !.poll = found[1]])

ApiRemoveVotes(p) ==
    /\ At(p, "api:remove:votes")
    /\ LET r == proc[p]
           found == QueryVotesByPoll(votes, r.id, NoLimit(votes))
       IN  ApiStep(p, [r EXCEPT !.pc = "api:remove:delete", !.list = found,
                                !.n = Len(found), !.acc = RemovePlan(found)])

ApiRemoveDelete(p) ==
    /\ At(p, "api:remove:delete")
    /\ LET r == proc[p]
           step == Head(r.acc)
           rest == Tail(r.acc)
           r2 == [r EXCEPT !.acc = rest,
                           !.list = IF step = "vote" THEN Tail(r.list) ELSE r.list]
       IN  /\ IF step = "vote"
              THEN /\ votes' = DeleteById(votes, Head(r.list)._id)
                   /\ UNCHANGED polls
              ELSE /\ polls' = DeleteById(polls, r.poll._id)
                   /\ UNCHANGED votes
           /\ proc' = [proc EXCEPT ![p] =
                  IF rest = << >> THEN ApiFinally(r2, Ok(RemoveBody(r.id, r.n))) ELSE r2]
    /\ UNCHANGED <<pollSeq, voteSeq>>

(* A pending store call of the try block rejects. *)
ApiFault(p) ==
    /\ Pending(p)
    /\ proc[p].client.state = "connected"
    /\ ApiStep(p, ApiFinally(proc[p], StoreFault))

(***************************************************************************)
(* ApiSpec: the PollsAPI service on a database with no poll or with one    *)
(* poll, active or closed, without votes or with the vote of one voter;    *)
(* vote, closePoll and deletePoll requests come one after the other, and   *)
(* connect and every store call may fail.                                  *)
(***************************************************************************)
ApiPolls == {<< >>, <<LoadedPoll>>, <<[LoadedPoll EXCEPT !.status = "closed", !.closed_at = 1]>>}

ApiInit ==
    /\ polls \in ApiPolls
    /\ votes \in (IF polls = << >> THEN {<< >>} ELSE {<< >>, <<NewVote(1, 1, U1, A)>>})
    /\ pollSeq = 1
    /\ voteSeq = Len(votes)
    /\ proc = [p \in {"r1"} |-> Idle]

ApiInputs ==
    [ids |-> {1},
     voters |-> {Str(U1), Str(U2), Str(Nil)},
     options |-> {Str(A), Str(X)},
     dtos |-> {DtoAB},
     pollCap |-> MaxPolls,
     voteCap |-> MaxVotes,
     closeCap |-> MaxCloses]

ApiNext ==
    \/ ApiVoteStart("r1", ApiInputs) \/ ApiCloseStart("r1", ApiInputs)
    \/ ApiRemoveStart("r1", ApiInputs)
    \/ ApiConnect("r1")
    \/ ApiVotePolls("r1") \/ ApiVoteExisting("r1") \/ ApiVoteInsert("r1") \/ ApiVoteAll("r1")
    \/ ApiClosePolls("r1") \/ ApiCloseUpdate("r1")
    \/ ApiRemovePolls("r1") \/ ApiRemoveVotes("r1") \/ ApiRemoveDelete("r1")
    \/ ApiFault("r1")
    \/ Return("r1")

ApiSpec == ApiInit /\ [][ApiNext]_vars

(***************************************************************************)
(* The PollingApp UI: the state of the React component App.  The browser   *)
(* is one more process, proc["ui"].  sent is the last createPoll request   *)
(* the form sent; calls are the invocations of handleVote in flight, each  *)
(* with the votedPolls its closure captured; attempt is the last call of   *)
(* handleVote and whether it sent a request; accepted is the set of polls  *)
(* for which a vote request has succeeded.                                 *)
(***************************************************************************)
MIN_FORM_OPTIONS == 2
MAX_FORM_OPTIONS == 6

Null == [isNull |-> TRUE, pollId |-> 0, option |-> Nil]

NoRequest == [kind |-> "none", data |-> Dto(Nil, << >>, Nil)]

NoCall == [pc |-> "idle", pollId |-> 0, option |-> Nil, votedPolls |-> {}]

Handlers == {"h1", "h2"}

App ==
    [question |-> Nil,
     options |-> <<Nil, Nil>>,
     selectedCategory |-> General,
     creating |-> FALSE,
     error |-> "",
     votedPolls |-> {},
     votingFor |-> Null,
     localStorage |-> [saved |-> FALSE, votedPolls |-> {}],
     sent |-> NoRequest,
     calls |-> [h \in Handlers |-> NoCall],
     attempt |-> [pollId |-> 0, voted |-> FALSE, sent |-> FALSE],
     accepted |-> {}]

Ui == proc["ui"]

SetUi(app) == proc' = [proc EXCEPT !["ui"] = app] /\ StoreUnchanged

setQuestion(value) == SetUi([Ui EXCEPT !.question = value])

addOption ==
    /\ Len(Ui.options) < MAX_FORM_OPTIONS
    /\ SetUi([Ui EXCEPT !.options = Append(Ui.options, Nil)])

removeOption(index) ==
    /\ Len(Ui.options) > MIN_FORM_OPTIONS
    /\ SetUi([Ui EXCEPT !.options =
                 [i \in 1..(Len(Ui.options) - 1) |->
                     IF i < index THEN Ui.options[i] ELSE Ui.options[i + 1]]])

updateOption(index, value) == SetUi([Ui EXCEPT !.options[index] = value])

(* options.filter(o => o.trim()) with every entry kept. *)
FilledOptions_Unfiltered(options) == options

(* options.filter(o => o.trim()) *)
FilledOptions(options) == SelectSeq(options, LAMBDA o : Trim(o) # Nil)

(* The submit of the form; the button is disabled while creating.  With a
   blank question or fewer than two filled options nothing is sent. *)
handleCreatePoll ==
    /\ ~Ui.creating
    /\ Trim(Ui.question) # Nil
    /\ Len(FilledOptions(Ui.options)) >= MIN_FORM_OPTIONS
    /\ SetUi([Ui EXCEPT
          !.creating = TRUE,
          !.sent = [kind |-> "createPoll",
                    data |-> Dto(Trim(Ui.question), FilledOptions(Ui.options),
                                 Ui.selectedCategory)]])

(* createPoll resolved: the form is reset. *)
createPollResolved ==
    /\ Ui.creating
    /\ SetUi([Ui EXCEPT !.question = Nil, !.options = <<Nil, Nil>>,
                        !.selectedCategory = General, !.creating = FALSE])

(* createPoll rejected: the form is kept. *)
createPollRejected ==
    /\ Ui.creating
    /\ SetUi([Ui EXCEPT !.error = "Failed to create poll", !.creating = FALSE])

(* handleVote up to its await: nothing is sent for a poll of votedPolls. *)
handleVote(h, pollId, option) ==
    /\ Ui.calls[h].pc = "idle"
    /\ IF pollId \in Ui.votedPolls
       THEN SetUi([Ui EXCEPT !.attempt = [pollId |-> pollId, voted |-> TRUE, sent |-> FALSE]])
       ELSE SetUi([Ui EXCEPT
               !.votingFor = [isNull |-> FALSE, pollId |-> pollId, option |-> option],
               !.calls[h] = [pc |-> "votePoll", pollId |-> pollId, option |-> option,
                             votedPolls |-> Ui.votedPolls],
               !.attempt = [pollId |-> pollId, voted |-> FALSE, sent |-> TRUE]])

(* votePoll resolved: the poll joins the votedPolls of the closure, the set
   is stored, and loadData is awaited. *)
votePollResolved(h) ==
    /\ Ui.calls[h].pc = "votePoll"
    /\ LET newVoted == Ui.calls[h].votedPolls \cup {Ui.calls[h].pollId}
       IN  SetUi([Ui EXCEPT
               !.votedPolls = newVoted,
               !.localStorage = [saved |-> TRUE, votedPolls |-> newVoted],
               !.accepted = Ui.accepted \cup {Ui.calls[h].pollId},
               !.calls[h].pc = "loadData"])

(* votePoll rejected with a message marked as voted too. *)
votePollRejected_MarksVoted(h, message) ==
    /\ Ui.calls[h].pc = "votePoll"
    /\ SetUi([Ui EXCEPT !.error = message, !.votingFor = Null, !.calls[h] = NoCall,
                        !.votedPolls = Ui.votedPolls \cup {Ui.calls[h].pollId}])

(* votePoll rejected: catch, then finally. *)
votePollRejected(h, message) ==
    /\ Ui.calls[h].pc = "votePoll"
    /\ SetUi([Ui EXCEPT !.error = message, !.votingFor = Null, !.calls[h] = NoCall])

(* loadData settled (it catches its own errors): finally. *)
loadDataSettled(h) ==
    /\ Ui.calls[h].pc = "loadData"
    /\ SetUi([Ui EXCEPT !.votingFor = Null, !.calls[h] = NoCall])

(* The page is loaded again: the component starts over and its effect
   reads votedPolls from localStorage. *)
Mount ==
    SetUi([App EXCEPT
        !.localStorage = Ui.localStorage,
        !.votedPolls = IF Ui.localStorage.saved THEN Ui.localStorage.votedPolls ELSE {},
        !.accepted = Ui.accepted])

(***************************************************************************)
(* FormSpec: the create-poll form, edited and submitted in any order.      *)
(***************************************************************************)
FormTexts == {Nil, <<" ">>, <<" ", "A">>}

UiInit == FreshStore /\ proc = [p \in {"ui"} |-> App]

FormNext ==
    \/ \E value \in FormTexts : setQuestion(value)
    \/ addOption
    \/ \E index \in DOMAIN Ui.options : removeOption(index)
    \/ \E index \in DOMAIN Ui.options, value \in FormTexts : updateOption(index, value)
    \/ handleCreatePoll
    \/ createPollResolved
    \/ createPollRejected

FormSpec == UiInit /\ [][FormNext]_vars

(***************************************************************************)
(* VotingSpec: the vote buttons; up to two calls of handleVote overlap.    *)
(***************************************************************************)
VoteMessages == {"Poll is closed", "Failed to vote"}

VotingNext ==
    \/ \E h \in Handlers, pollId \in 1..MaxPolls, option \in {A, B} :
          handleVote(h, pollId, option)
    \/ \E h \in Handlers : votePollResolved(h)
    \/ \E h \in Handlers, message \in VoteMessages : votePollRejected(h, message)
    \/ \E h \in Handlers : loadDataSettled(h)
    \/ Mount

VotingSpec == UiInit /\ [][VotingNext]_vars

(***************************************************************************)
(*                              PROPERTIES                                 *)
(***************************************************************************)
(* The error taxonomy the handlers' exceptions fall into: a missing        *)
(* entity, a request illegal in the current state, a malformed request.    *)
IsNotFoundError(resp) == resp.error = "NotFoundException"

IsConflictError(resp) ==
    /\ resp.error = "BadRequestException"
    /\ resp.message \in {"Poll is closed", "Already voted: "}

IsValidationError(resp) ==
    /\ resp.error = "BadRequestException"
    /\ resp.message \in {"voter_id is required", "option is required",
                         "Invalid option. Valid options: ", "Question is required",
                         "At least 2 options are required", "Maximum 10 options allowed"}

(* A finished request of handler op that no store fault cut short. *)
Finished(p, op) ==
    /\ proc[p].pc = "done"
    /\ proc[p].op = op
    /\ proc[p].resp.error # "StoreError"

PollsWithId(ps, id) == {i \in DOMAIN ps : ps[i].id = id}

VotesOfPoll(vs, id) == {i \in DOMAIN vs : vs[i].poll_id = id}

VotesOfVoter(vs, id, voter) ==
    {i \in DOMAIN vs : vs[i].poll_id = id /\ vs[i].voter_id = voter}

(* The poll the request addresses, as it was when the request came in. *)
StatusAtStart(r, status) == \E i \in PollsWithId(r.polls0, r.id) : r.polls0[i].status = status

OptionsAtStart(r) == UNION {Range(r.polls0[i].options) : i \in PollsWithId(r.polls0, r.id)}

WellFormedVote(r) ==
    /\ IsString(r.voter) /\ r.voter.v # Nil
    /\ IsString(r.option) /\ r.option.v # Nil

OptionDeclared(r) == IsString(r.option) /\ r.option.v \in OptionsAtStart(r)

HadVoted(r) == IsString(r.voter) /\ VotesOfVoter(r.votes0, r.id, r.voter.v) # {}

EarlierOption(r) ==
    r.votes0[CHOOSE i \in VotesOfVoter(r.votes0, r.id, r.voter.v) : TRUE].option

(* C1: with requests one after the other (createPoll, vote, closePoll,
   deletePoll, the reads, store faults included), the votes collection never
   holds two votes with the same poll_id and voter_id. *)
C1_OneVotePerVoter ==
    \A i, j \in DOMAIN votes :
        (votes[i].poll_id = votes[j].poll_id /\ votes[i].voter_id = votes[j].voter_id)
            => i = j

(* A second vote of a voter, for the option already chosen, was refused and
   the voter's one vote is still the only one. *)
C1_Witness ==
    LET r == proc["r1"]
    IN  /\ Finished("r1", "vote")
        /\ r.resp.message = "Already voted: "
        /\ r.option.v = EarlierOption(r)
        /\ Cardinality(VotesOfVoter(votes, r.id, r.voter.v)) = 1

(* C3 as stated: a vote on a closed poll always fails with a ConflictError
   and leaves the votes unchanged, whatever the voter and the option. *)
C3_ClosedPollAlwaysConflict ==
    \A p \in DOMAIN proc :
        (Finished(p, "vote") /\ StatusAtStart(proc[p], "closed"))
            => /\ IsConflictError(proc[p].resp)
               /\ votes = proc[p].votes0

(* C3 amended: a vote on a closed poll never changes the votes; it fails
   with the "Poll is closed" ConflictError when voter_id and option are
   non-empty strings (whether or not the option is one of the poll's, and
   whether or not the voter has voted), and with a ValidationError when
   voter_id or option is empty or not a string. *)
C3_ClosedPollRejected ==
    \A p \in DOMAIN proc :
        (Finished(p, "vote") /\ StatusAtStart(proc[p], "closed"))
            => /\ votes = proc[p].votes0
               /\ IF WellFormedVote(proc[p])
                  THEN proc[p].resp = BadRequest("Poll is closed", Nil)
                  ELSE IsValidationError(proc[p].resp)

(* A vote for an option the closed poll does not have was refused as
   "Poll is closed". *)
C3_Witness ==
    LET r == proc["r1"]
    IN  /\ Finished("r1", "vote")
        /\ StatusAtStart(r, "closed")
        /\ WellFormedVote(r)
        /\ ~OptionDeclared(r)
        /\ r.resp.message = "Poll is closed"

(* C4 as stated: a vote whose option is not one of the poll's stored
   options always fails with a ValidationError and leaves the votes
   unchanged. *)
C4_UndeclaredOptionAlwaysValidation ==
    \A p \in DOMAIN proc :
        (/\ Finished(p, "vote")
         /\ PollsWithId(proc[p].polls0, proc[p].id) # {}
         /\ ~OptionDeclared(proc[p]))
            => /\ IsValidationError(proc[p].resp)
               /\ votes = proc[p].votes0

(* C4 amended: a vote whose option is not one of the poll's stored options
   never changes the votes, and on an active poll it always fails with a
   ValidationError. *)
C4_UndeclaredOptionRejected ==
    \A p \in DOMAIN proc :
        (/\ Finished(p, "vote")
         /\ PollsWithId(proc[p].polls0, proc[p].id) # {}
         /\ ~OptionDeclared(proc[p]))
            => /\ votes = proc[p].votes0
               /\ StatusAtStart(proc[p], "active") => IsValidationError(proc[p].resp)

(* A vote for an undeclared option on an active poll was refused as an
   invalid option. *)
C4_Witness ==
    LET r == proc["r1"]
    IN  /\ Finished("r1", "vote")
        /\ StatusAtStart(r, "active")
        /\ WellFormedVote(r)
        /\ ~OptionDeclared(r)
        /\ r.resp.message = "Invalid option. Valid options: "
        /\ votes = r.votes0 /\ votes # << >>

(* C8 as stated: a voter who already has a vote on a poll and votes again,
   for the same or another of the poll's options, is refused with a
   ConflictError naming the option of the earlier vote, and the votes are
   unchanged. *)
C8_RevoteAlwaysNamesEarlier ==
    \A p \in DOMAIN proc :
        (Finished(p, "vote") /\ HadVoted(proc[p]) /\ OptionDeclared(proc[p]))
            => /\ proc[p].resp = BadRequest("Already voted: ", EarlierOption(proc[p]))
               /\ votes = proc[p].votes0

(* C8 amended: a voter who already has a vote on a poll and votes again
   never changes the votes; when the poll is still active and the requested
   option is one of the poll's options, the request is refused with the
   "Already voted" ConflictError naming the option of the earlier vote, not
   the requested one. *)
C8_RevoteNamesEarlier ==
    \A p \in DOMAIN proc :
        (Finished(p, "vote") /\ HadVoted(proc[p]))
            => /\ votes = proc[p].votes0
               /\ (StatusAtStart(proc[p], "active") /\ OptionDeclared(proc[p]))
                    => /\ proc[p].resp = BadRequest("Already voted: ", EarlierOption(proc[p]))
                       /\ IsConflictError(proc[p].resp)

(* A second vote for another option was refused, naming the first option. *)
C8_Witness ==
    LET r == proc["r1"]
    IN  /\ Finished("r1", "vote")
        /\ HadVoted(r)
        /\ r.resp.message = "Already voted: "
        /\ r.option.v # EarlierOption(r)
        /\ r.resp.arg = EarlierOption(r)

(* C2: with two vote requests in flight, each accepted request adds one
   record and the check-then-insert of vote admits one duplicate per
   overlapping request and no more: for every poll and voter, the records
   held plus the requests past their check and about to insert never exceed
   the number of requests in flight at once (two); and two records for one
   (poll_id, voter_id) pair are reached (C2_Witness). *)
AboutToInsert(id, voter) ==
    {p \in DOMAIN proc : /\ proc[p].pc = "vote:create"
                         /\ proc[p].id = id
                         /\ proc[p].voter.v = voter}

C2_DuplicatesOnlyByOverlap ==
    \A id \in ConcInputs.ids, voter \in {x.v : x \in ConcInputs.voters} :
        Cardinality(VotesOfVoter(votes, id, voter)) + Cardinality(AboutToInsert(id, voter))
            <= Cardinality(Procs)

(* Both requests of one voter on one poll were accepted: each read no
   earlier vote (the other had not inserted yet), and the collection holds
   two records for the pair. *)
C2_Witness ==
    /\ \A p \in Procs : Finished(p, "vote") /\ proc[p].resp.ok
    /\ proc["r1"].id = proc["r2"].id
    /\ proc["r1"].voter = proc["r2"].voter
    /\ VotesOfVoter(proc["r1"].votes0, proc["r1"].id, proc["r1"].voter.v) = {}
    /\ VotesOfVoter(proc["r2"].votes0, proc["r2"].id, proc["r2"].voter.v) = {}
    /\ Cardinality(VotesOfVoter(votes, proc["r1"].id, proc["r1"].voter.v)) = 2

RECURSIVE SumOver(_, _)
SumOver(f, keys) ==
    IF keys = {} THEN 0
    ELSE LET k == CHOOSE x \in keys : TRUE IN f[k] + SumOver(f, keys \ {k})

SumValues(f) == SumOver(f, DOMAIN f)

TallyMatches(body, id) ==
    /\ SumValues(body.vote_counts) = body.total_votes
    /\ body.total_votes = Cardinality(VotesOfPoll(votes, id))

(* C5: the tally getPoll and listPolls return for a poll has vote_counts
   summing to total_votes, and total_votes equal to the number of vote
   records of that poll in the votes collection. *)
C5_TallyMatchesStore ==
    \A p \in DOMAIN proc :
        /\ (Finished(p, "findOne") /\ proc[p].resp.ok)
              => TallyMatches(proc[p].resp.body, proc[p].id)
        /\ (Finished(p, "findAll") /\ proc[p].resp.ok)
              => \A i \in DOMAIN proc[p].resp.body.polls :
                    TallyMatches(proc[p].resp.body.polls[i], proc[p].resp.body.polls[i].poll.id)

(* C6: after a successful deletePoll(id) no vote with poll_id = id remains,
   the poll is gone, and votes_removed is the number of votes that
   referenced the poll just before the request. *)
C6_RemoveRemovesEveryVote ==
    \A p \in DOMAIN proc :
        (Finished(p, "remove") /\ proc[p].resp.ok)
            => /\ VotesOfPoll(votes, proc[p].id) = {}
               /\ PollsWithId(polls, proc[p].id) = {}
               /\ proc[p].resp.body.votes_removed
                    = Cardinality(VotesOfPoll(proc[p].votes0, proc[p].id))

(* C7: with requests one after the other, every vote record's poll_id is
   the id of a poll in the polls collection. *)
C7_NoOrphanVotes ==
    \A i \in DOMAIN votes : PollsWithId(polls, votes[i].poll_id) # {}

(* C9: getPoll's vote_percentages[o] is 0 when total_votes is 0 and
   otherwise 100 * vote_counts[o] / total_votes rounded to the nearest
   integer, halves up. *)
C9_PercentagesRoundHalfUp ==
    \A p \in DOMAIN proc :
        (Finished(p, "findOne") /\ proc[p].resp.ok)
            => LET b == proc[p].resp.body
               IN  \A o \in DOMAIN b.vote_percentages :
                      b.vote_percentages[o] =
                          IF b.total_votes = 0 THEN 0
                          ELSE ExactPercentage(b.vote_counts[o], b.total_votes)

Abs(x) == IF x < 0 THEN -x ELSE x

(* C10: every vote_percentages[o] getPoll returns lies in 0..100, and when
   total_votes > 0 the percentages sum to 100 give or take half a point per
   option of the map. *)
C10_PercentagesInRange ==
    \A p \in DOMAIN proc :
        (Finished(p, "findOne") /\ proc[p].resp.ok)
            => LET b == proc[p].resp.body
               IN  /\ \A o \in DOMAIN b.vote_percentages :
                          b.vote_percentages[o] \in 0..100
                   /\ b.total_votes > 0
                        => 2 * Abs(SumValues(b.vote_percentages) - 100)
                              <= Cardinality(DOMAIN b.vote_percentages)

(* The number of entries of the options of a createPoll body; a body whose
   options are not an array has none. *)
OptionCount(dto) == IF dto.options.isArray THEN Len(dto.options.items) ELSE 0

(* A question that is a string and not empty once trimmed. *)
ValidQuestion(dto) == IsString(dto.question) /\ Trim(dto.question.v) # Nil

Stored(p) == polls = Append(proc[p].polls0, proc[p].resp.body.poll)

(* A category that is absent or a string. *)
CategoryTyped(dto) == dto.category = Undefined \/ IsString(dto.category)

(* C11: createPoll with fewer than 2 or more than 10 options fails with a
   ValidationError and stores no poll; with 2 to 10 options and a valid
   question (and a category that is absent or a string) it succeeds and
   stores the poll; every stored poll has between 2 and 10 options. *)
C11_OptionCountEnforced ==
    /\ \A p \in DOMAIN proc :
          Finished(p, "create") =>
              LET n == OptionCount(proc[p].dto)
              IN  /\ (n < MIN_OPTIONS \/ n > MAX_OPTIONS)
                        => IsValidationError(proc[p].resp) /\ polls = proc[p].polls0
                  /\ (/\ n \in MIN_OPTIONS..MAX_OPTIONS
                      /\ ValidQuestion(proc[p].dto)
                      /\ CategoryTyped(proc[p].dto))
                        => proc[p].resp.ok /\ Stored(p)
    /\ \A i \in DOMAIN polls : Len(polls[i].options) \in MIN_OPTIONS..MAX_OPTIONS

Distinct(seq) == \A i, j \in DOMAIN seq : seq[i] = seq[j] => i = j

TrimmedOptions(dto) == [i \in DOMAIN dto.options.items |-> Trim(dto.options.items[i].v)]

(* C12: createPoll fails with a ValidationError, storing nothing, when two
   of the options are equal after trimming or one is empty after trimming;
   every stored poll's options are distinct non-empty strings. *)
C12_OptionsDistinctNonEmpty ==
    /\ \A p \in DOMAIN proc :
          (/\ Finished(p, "create")
           /\ proc[p].dto.options.isArray
           /\ \A i \in DOMAIN proc[p].dto.options.items : IsString(proc[p].dto.options.items[i])
           /\ \/ ~Distinct(TrimmedOptions(proc[p].dto))
              \/ Nil \in Range(TrimmedOptions(proc[p].dto)))
              => IsValidationError(proc[p].resp) /\ polls = proc[p].polls0
    /\ \A i \in DOMAIN polls : Distinct(polls[i].options) /\ Nil \notin Range(polls[i].options)

(* C13: every poll in the polls collection has a non-empty question;
   createPoll with a question that is missing, not a string, or empty after
   trimming fails with a ValidationError and stores nothing. *)
C13_QuestionNonEmpty ==
    /\ \A p \in DOMAIN proc :
          (Finished(p, "create") /\ ~ValidQuestion(proc[p].dto))
              => IsValidationError(proc[p].resp) /\ polls = proc[p].polls0
    /\ \A i \in DOMAIN polls : polls[i].question # Nil

(* C14: closePoll on a poll that is already closed fails with a
   ConflictError and does not modify the poll record. *)
C14_ReCloseRejected ==
    \A p \in DOMAIN proc :
        (Finished(p, "close") /\ StatusAtStart(proc[p], "closed"))
            => IsConflictError(proc[p].resp) /\ polls = proc[p].polls0

(* C15: a poll enters the polls collection with status active, and in every
   step a poll that is closed and still in the collection stays closed: no
   operation reopens it. *)
C15_StatusOneWay ==
    [][/\ \A i \in DOMAIN polls, j \in DOMAIN polls' :
              (polls[i]._id = polls'[j]._id /\ polls[i].status = "closed")
                  => polls'[j].status = "closed"
       /\ \A j \in DOMAIN polls' :
              (\A i \in DOMAIN polls : polls[i]._id # polls'[j]._id)
                  => polls'[j].status = "active"]_vars

(* A closed poll was closed once more, and a vote on it was then refused: it
   is still closed. *)
C15_Witness ==
    /\ Finished("r1", "vote")
    /\ proc["r1"].resp.message = "Poll is closed"
    /\ \E i \in PollsWithId(polls, proc["r1"].id) :
          polls[i].status = "closed" /\ polls[i].closed_at > 1

NoPollAtStart(r) == PollsWithId(r.polls0, r.id) = {}

(* C16 as stated: getPoll, vote, closePoll and deletePoll with an id no
   poll has each fail with a NotFoundError and leave polls and votes as they
   were. *)
C16_MissingPollAlwaysNotFound ==
    \A p \in DOMAIN proc :
        (/\ \E op \in {"findOne", "vote", "close", "remove"} : Finished(p, op)
         /\ NoPollAtStart(proc[p]))
            => /\ IsNotFoundError(proc[p].resp)
               /\ polls = proc[p].polls0 /\ votes = proc[p].votes0

(* C16 amended: getPoll, closePoll and deletePoll with an id no poll has
   fail with a NotFoundError; vote does so when voter_id and option are
   non-empty strings and fails with a ValidationError otherwise; in every
   case polls and votes are left as they were. *)
C16_MissingPollRejected ==
    \A p \in DOMAIN proc :
        (/\ \E op \in {"findOne", "vote", "close", "remove"} : Finished(p, op)
         /\ NoPollAtStart(proc[p]))
            => /\ polls = proc[p].polls0 /\ votes = proc[p].votes0
               /\ IF proc[p].op = "vote" /\ ~WellFormedVote(proc[p])
                  THEN IsValidationError(proc[p].resp)
                  ELSE IsNotFoundError(proc[p].resp)

(* A well-formed vote on an id whose poll has been deleted was refused as
   not found. *)
C16_Witness ==
    /\ Finished("r1", "vote")
    /\ WellFormedVote(proc["r1"])
    /\ NoPollAtStart(proc["r1"])
    /\ proc["r1"].id <= pollSeq
    /\ IsNotFoundError(proc["r1"].resp)

SameButClose(before, after) ==
    after = [before EXCEPT !.status = after.status, !.closed_at = after.closed_at]

(* C20: no step changes the id, question, options or category of a poll
   that stays in the collection; the steps of vote, listPolls, getPoll and
   categories leave the polls collection unchanged; a step of closePoll
   changes only status and closed_at, and only of the poll it targets. *)
C20_PollsFrame ==
    [][/\ \A i \in DOMAIN polls, j \in DOMAIN polls' :
              polls[i]._id = polls'[j]._id
                  => /\ SameButClose(polls[i], polls'[j])
                     /\ polls'[j] # polls[i]
                          => \E p \in DOMAIN proc :
                                /\ proc[p].op = "close"
                                /\ proc'[p] # proc[p]
                                /\ proc[p].id = polls[i].id
       /\ \A p \in DOMAIN proc :
              (/\ proc'[p] # proc[p]
               /\ {proc[p].op, proc'[p].op} \cap {"vote", "findAll", "findOne", "categories"} # {})
                  => polls' = polls
       /\ \A p \in DOMAIN proc :
              (proc'[p] # proc[p] /\ proc[p].op = "close")
                  => Len(polls') = Len(polls)]_vars

(* closePoll closed one of two polls: the other is as it was, and the closed
   one differs in status and closed_at only. *)
C20_Witness ==
    LET r == proc["r1"]
    IN  /\ Finished("r1", "close") /\ r.resp.ok
        /\ Len(polls) = 2 /\ Len(r.polls0) = 2
        /\ \E i, j \in DOMAIN polls :
              /\ i # j
              /\ polls[i] = r.polls0[i]
              /\ polls[j] # r.polls0[j]
              /\ polls[j].id = r.id
              /\ SameButClose(r.polls0[j], polls[j])

RECURSIVE SumCounts(_)
SumCounts(entries) ==
    IF entries = << >> THEN 0 ELSE Head(entries).count + SumCounts(Tail(entries))

PollsOfCategory(name) ==
    {i \in DOMAIN polls : CategoryOrGeneral(polls[i].category) = name}

(* C17: categories() returns each default category once, each other
   category of some poll once, and nothing else; each count is the number of
   polls of that category; total_polls is the number of polls and the sum of
   the counts. *)
C17_CategoriesComplete ==
    \A p \in DOMAIN proc :
        (Finished(p, "categories") /\ proc[p].resp.ok)
            => LET b == proc[p].resp.body
                   names == [k \in DOMAIN b.categories |-> b.categories[k].name]
               IN  /\ Distinct(names)
                   /\ Range(names) = Range(DEFAULT_CATEGORIES)
                        \cup {CategoryOrGeneral(polls[i].category) : i \in DOMAIN polls}
                   /\ \A k \in DOMAIN b.categories :
                          b.categories[k].count = Cardinality(PollsOfCategory(names[k]))
                   /\ b.total_polls = Len(polls)
                   /\ b.total_polls = SumCounts(b.categories)

(* C18: listPolls returns one entry for every poll in the polls collection,
   count being their number, and each entry's total_votes and vote_counts
   are those getPoll computes for that poll in the same state. *)
C18_ListPollsComplete ==
    \A p \in DOMAIN proc :
        (Finished(p, "findAll") /\ proc[p].resp.ok)
            => LET b == proc[p].resp.body
               IN  /\ b.count = Len(polls)
                   /\ Len(b.polls) = Len(polls)
                   /\ \A i \in DOMAIN polls :
                          Cardinality({k \in DOMAIN b.polls : b.polls[k].poll = polls[i]}) = 1
                   /\ \A k \in DOMAIN b.polls :
                          LET one == FindOneBody(b.polls[k].poll,
                                         QueryVotesByPoll(votes, b.polls[k].poll.id, LIMIT_VOTES))
                          IN  /\ b.polls[k].total_votes = one.total_votes
                              /\ b.polls[k].vote_counts = one.vote_counts

(* C19: the tally of a poll over any votes has the poll's declared options
   as its keys, exactly; each declared option's count is the number of votes
   carrying that option; a vote for an undeclared option adds to no count
   and raises no error. *)
C19_TallyKeysAreOptions ==
    \A p \in DOMAIN proc :
        (Finished(p, "findOne") /\ ~NoPollAtStart(proc[p]))
            => /\ proc[p].resp.ok
               /\ LET b == proc[p].resp.body
                      declared == Range(b.poll.options)
                  IN  /\ DOMAIN b.vote_counts = declared
                      /\ \A o \in declared :
                            b.vote_counts[o] = Cardinality({i \in VotesOfPoll(votes, proc[p].id) :
                                                              votes[i].option = o})

(* The rejection a vote request meets first in the order missing poll,
   closed poll, invalid option, already voted; "none" when it meets none. *)
FirstRejection(r) ==
    IF NoPollAtStart(r) THEN "Poll not found"
    ELSE IF StatusAtStart(r, "closed") THEN "Poll is closed"
    ELSE IF ~OptionDeclared(r) THEN "Invalid option. Valid options: "
    ELSE IF HadVoted(r) THEN "Already voted: "
    ELSE "none"

(* C23 as stated: a vote request that meets several of the four rejection
   conditions is answered with the first of them in the order missing poll,
   closed poll, invalid option, already voted, whatever its body. *)
C23_RejectionOrderAlways ==
    \A p \in DOMAIN proc :
        Finished(p, "vote")
            => IF FirstRejection(proc[p]) = "none" THEN proc[p].resp.ok
               ELSE proc[p].resp.message = FirstRejection(proc[p])

(* C23 amended: a vote request whose voter_id or option is empty or not a
   string is answered with the ValidationError of the body, before the poll
   is read; any other vote request that meets several of the four rejection
   conditions is answered with the first of them in the order missing poll
   (NotFound), closed poll, invalid option, already voted. *)
C23_RejectionOrder ==
    \A p \in DOMAIN proc :
        Finished(p, "vote")
            => IF ~WellFormedVote(proc[p])
               THEN proc[p].resp = VoteDtoError(proc[p].voter, proc[p].option)
               ELSE IF FirstRejection(proc[p]) = "none" THEN proc[p].resp.ok
               ELSE /\ proc[p].resp.message = FirstRejection(proc[p])
                    /\ NoPollAtStart(proc[p]) <=> IsNotFoundError(proc[p].resp)

(* A voter who had voted votes again on the poll, now closed, for an option
   the poll does not have: three conditions at once, and the answer is
   "Poll is closed". *)
C23_Witness ==
    LET r == proc["r1"]
    IN  /\ Finished("r1", "vote")
        /\ WellFormedVote(r)
        /\ StatusAtStart(r, "closed")
        /\ ~OptionDeclared(r)
        /\ HadVoted(r)
        /\ r.resp = BadRequest("Poll is closed", Nil)

(* C24: a successful vote with no overlapping request adds exactly one vote
   record, carrying the request's poll_id, voter_id and option, changes no
   other vote and no poll, and returns results whose total_votes is the
   number of the poll's votes before the request plus 1, whose
   vote_counts[option] is the earlier count plus 1 and whose other counts
   are the earlier counts. *)
CountBefore(r, o) ==
    Cardinality({i \in VotesOfPoll(r.votes0, r.id) : r.votes0[i].option = o})

C24_VoteAddsOne ==
    \A p \in DOMAIN proc :
        (Finished(p, "vote") /\ proc[p].resp.ok)
            => LET r == proc[p]
                   b == r.resp.body
               IN  /\ Len(votes) = Len(r.votes0) + 1
                   /\ SubSeq(votes, 1, Len(r.votes0)) = r.votes0
                   /\ votes[Len(votes)].poll_id = r.id
                   /\ votes[Len(votes)].voter_id = r.voter.v
                   /\ votes[Len(votes)].option = r.option.v
                   /\ polls = r.polls0
                   /\ b.total_votes = Cardinality(VotesOfPoll(r.votes0, r.id)) + 1
                   /\ \A o \in DOMAIN b.vote_counts :
                          b.vote_counts[o] =
                              CountBefore(r, o) + (IF o = r.option.v THEN 1 ELSE 0)

(* C25: in every state a poll has a closed_at value exactly when its status
   is closed, and in every step a closed_at value that is set stays as it is
   while the poll is in the collection. *)
C25_ClosedAtSetOnce ==
    /\ [](\A i \in DOMAIN polls : polls[i].closed_at # 0 <=> polls[i].status = "closed")
    /\ [][\A i \in DOMAIN polls, j \in DOMAIN polls' :
              (polls[i]._id = polls'[j]._id /\ polls[i].closed_at # 0)
                  => polls'[j].closed_at = polls[i].closed_at]_vars

(* C27: with a vote and a closePoll in flight on the same poll, in any
   interleaving, no step adds a vote record to a poll that is closed in the
   collection: the number of votes of a closed poll never increases. *)
C27_NoVoteAfterClose ==
    [][\A i \in DOMAIN polls :
          polls[i].status = "closed"
              => Cardinality(VotesOfPoll(votes', polls[i].id))
                    <= Cardinality(VotesOfPoll(votes, polls[i].id))]_vars

(* C28: with a vote and a deletePoll in flight on the same poll, in any
   interleaving, once both have completed (the deletePoll successfully) no
   vote record carries the id of the deleted poll. *)
C28_NoVoteOfDeletedPoll ==
    \A p, q \in DOMAIN proc :
        (/\ Finished(p, "vote")
         /\ Finished(q, "remove") /\ proc[q].resp.ok
         /\ proc[p].id = proc[q].id)
            => VotesOfPoll(votes, proc[q].id) = {}

ReadOps == {"findAll", "findOne", "categories"}

(* C26: a listPolls, getPoll or categories request leaves polls and votes
   as they were when it came in, at each of its steps; and two finished
   requests of the same operation and id, with no write between them, carry
   the same response: the same tallies, percentages and category counts. *)
C26_ReadsPure ==
    /\ \A p \in DOMAIN proc :
          proc[p].op \in ReadOps => polls = proc[p].polls0 /\ votes = proc[p].votes0
    /\ \A p, q \in DOMAIN proc :
          (/\ proc[p].pc = "done" /\ proc[q].pc = "done"
           /\ proc[p].op \in ReadOps
           /\ proc[p].op = proc[q].op /\ proc[p].id = proc[q].id)
              => proc[p].resp = proc[q].resp

(* Two getPoll requests on the same poll, which has votes, have both
   finished, with the same body. *)
C26_Witness ==
    /\ Finished("r1", "findOne") /\ Finished("r2", "findOne")
    /\ proc["r1"].id = proc["r2"].id
    /\ proc["r1"].resp.ok
    /\ proc["r1"].resp.body.total_votes > 1
    /\ proc["r1"].resp.body = proc["r2"].resp.body
    /\ votes = proc["r1"].votes0 /\ votes # << >>

(* C29: for every poll listPolls returns, and every option getPoll gives a
   percentage for, the percentage the UI computes from the listed
   vote_counts (getVotePercentage) is the vote_percentages value getPoll
   computes for the poll in the same state. *)
C29_UiPercentageIsServers ==
    \A p \in DOMAIN proc :
        (Finished(p, "findAll") /\ proc[p].resp.ok)
            => \A k \in DOMAIN proc[p].resp.body.polls :
                  LET shown == transformPoll(proc[p].resp.body.polls[k])
                      one == FindOneBody(proc[p].resp.body.polls[k].poll,
                                 QueryVotesByPoll(votes, shown.id, LIMIT_VOTES))
                  IN  \A o \in DOMAIN one.vote_percentages :
                         getVotePercentage(shown.votes, o) = one.vote_percentages[o]

(* C21: in every state of the create-poll form, whatever addOption,
   removeOption, updateOption calls, submits and resets came before, the
   option list has between 2 and 6 entries; and every createPoll request the
   form has sent carries between 2 and 6 options, none of them blank. *)
C21_FormOptionsBounded ==
    /\ Len(Ui.options) \in MIN_FORM_OPTIONS..MAX_FORM_OPTIONS
    /\ Ui.sent.kind = "createPoll"
          => /\ Len(Ui.sent.data.options) \in MIN_FORM_OPTIONS..MAX_FORM_OPTIONS
             /\ \A i \in DOMAIN Ui.sent.data.options : Trim(Ui.sent.data.options[i]) # Nil

(* A form of six entries, four of them blank, was submitted: the request
   carries the two filled ones. *)
C21_Witness ==
    /\ Ui.creating
    /\ Len(Ui.options) = MAX_FORM_OPTIONS
    /\ Len(FilledOptions(Ui.options)) = MIN_FORM_OPTIONS
    /\ Ui.sent.kind = "createPoll"
    /\ Ui.sent.data.options = FilledOptions(Ui.options)

CallEnds(h) == Ui.calls[h].pc # "idle" /\ Ui'.calls[h].pc = "idle"

(* C22: handleVote sends a vote request only for a poll that is not in
   votedPolls when it is called; votedPolls and the stored copy hold only
   polls whose vote request has succeeded; and a call of handleVote that
   sent a request leaves votingFor null when it ends, after success and
   after failure. *)
C22_VoteTracking ==
    /\ [](/\ Ui.attempt.sent => ~Ui.attempt.voted
          /\ \A h \in Handlers :
                Ui.calls[h].pc # "idle" => Ui.calls[h].pollId \notin Ui.calls[h].votedPolls
          /\ Ui.votedPolls \subseteq Ui.accepted
          /\ Ui.localStorage.votedPolls \subseteq Ui.accepted
          /\ (\A h \in Handlers : Ui.calls[h].pc = "idle") => Ui.votingFor = Null)
    /\ [][\A h \in Handlers : CallEnds(h) => Ui'.votingFor = Null]_vars

(* Poll 1 was voted and stored; a vote on another poll then failed and left
   no trace in votedPolls; a further click on poll 1 sent nothing; no call
   is in flight and votingFor is null. *)
C22_Witness ==
    /\ Ui.votedPolls = {1}
    /\ Ui.localStorage = [saved |-> TRUE, votedPolls |-> {1}]
    /\ Ui.accepted = {1}
    /\ Ui.error = "Poll is closed"
    /\ Ui.attempt = [pollId |-> 1, voted |-> TRUE, sent |-> FALSE]
    /\ \A h \in Handlers : Ui.calls[h].pc = "idle"
    /\ Ui.votingFor = Null

ApiOps == {"api:vote", "api:close", "api:remove"}

(* C30: a PollsAPI request that has obtained a client and has not ended
   holds it unclosed; a request that has ended has closed its client exactly
   once if it obtained one, after a return and after every throw (poll not
   found, closed poll, invalid option, duplicate vote, failed connect or
   store call); only a vote refused for its body ends without a client,
   having obtained none.  No ended request leaves a client open. *)
C30_ClientClosedOnce ==
    \A p \in DOMAIN proc :
        proc[p].op \in ApiOps
            => IF proc[p].pc = "done"
               THEN \/ proc[p].client = [state |-> "closed", closes |-> 1]
                    \/ /\ proc[p].client = NoClient
                       /\ proc[p].op = "api:vote"
                       /\ proc[p].resp.message \in {"voter_id is required", "option is required"}
               ELSE proc[p].client.state \in {"new", "connected"} /\ proc[p].client.closes = 0

(* A repeated vote was refused as already voted, and its client is closed,
   once. *)
C30_Witness ==
    /\ proc["r1"].pc = "done"
    /\ proc["r1"].op = "api:vote"
    /\ proc["r1"].resp.message = "Already voted: "
    /\ proc["r1"].client = [state |-> "closed", closes |-> 1]

====
